---------------------------- MODULE Spec2Model ----------------------------
(***************************************************************************)
(* merge_notification_config.py: append one notification rule (SNS topic   *)
(* or Lambda function) to the notification configuration of an S3 bucket.  *)
(*                                                                         *)
(* The bucket is the only shared state.  A run of the tool is a process    *)
(* that walks main() and, inside it, merge_config() once per given ARN.    *)
(* merge_config is cut at its remote calls (one get, up to three puts):    *)
(* each remote call either succeeds or raises.                             *)
(***************************************************************************)
EXTENDS Integers, Sequences, FiniteSets, TLC

(* ------------------------------ bounds --------------------------------- *)

\* longest list of either type the bucket starts with
MaxLen == 2
\* number of distinct rules the bucket may already hold per type
NumExisting == 2
\* number of values uuid.uuid4() may return
NumIds == 2

(* ----------------------------- vocabulary ------------------------------ *)

\* Python's None, for the string-valued command line arguments
None == "<None>"

\* the runs of the tool; only run1 moves in Spec, both move in SpecRace
Procs == {"run1", "run2"}

ConfigTypes == {"Topic", "Lambda"}

\* config_key of merge_config
ConfigKey(configuration_type) ==
  IF configuration_type = "Lambda" THEN "LambdaFunctionConfigurations"
                                   ELSE "TopicConfigurations"

\* the arn_type merge_config hands to json_notification_config
ArnType(configuration_type) ==
  IF configuration_type = "Lambda" THEN "LambdaFunctionArn" ELSE "TopicArn"

ConfigKeys == {ConfigKey(t) : t \in ConfigTypes}

OtherKey(k) == CHOOSE o \in ConfigKeys : o # k

\* str(uuid_id)
UuidStr(uuid_id) == <<"uuid", uuid_id>>

\* the values uuid.uuid4() may return
Uuids == 1..NumIds

(* ----------------------- json_notification_config ---------------------- *)

\* FilterRulesOf with the two entries swapped
FilterRulesPrefixFirst(prefix, suffix) ==
  << [Name |-> "Prefix", Value |-> prefix],
     [Name |-> "Suffix", Value |-> suffix] >>

\* the two filter rules in the order the code writes them
FilterRulesOf(prefix, suffix) ==
  << [Name |-> "Suffix", Value |-> suffix],
     [Name |-> "Prefix", Value |-> prefix] >>

\* `if None == suffix: suffix = ""`, the same for prefix
NoneToEmpty(s) == IF s = None THEN "" ELSE s

\* the fixed event list
EventsOf == << "s3:ObjectCreated:*" >>

\* the dict returned by json_notification_config; uuid_id is the value
\* uuid.uuid4() returned in this call
json_notification_config(arn_type, arn, prefix, suffix, uuid_id) ==
  (arn_type :> arn) @@
  [ Filter |-> [Key |-> [FilterRules |->
                  FilterRulesOf(NoneToEmpty(prefix), NoneToEmpty(suffix))]],
    Id     |-> UuidStr(uuid_id),
    Events |-> EventsOf ]

(* ------------------------------ the bucket ----------------------------- *)

\* rules already on the bucket: entries of the same shape, returned verbatim
ExistingRule(configuration_type, i) ==
  (ArnType(configuration_type) :> "arn:existing") @@
  [ Filter |-> [Key |-> [FilterRules |-> FilterRulesOf("old/", "")]],
    Id     |-> <<"existing", i>>,
    Events |-> EventsOf ]

ExistingRules(configuration_type) ==
  {ExistingRule(configuration_type, i) : i \in 1..NumExisting}

\* sequences over S of length at most n
SeqUpTo(S, n) == UNION {[1..k -> S] : k \in 0..n}

\* put(NotificationConfiguration={config_key: payload}): the provider
\* replaces the whole notification configuration by the request body, so a
\* list the body does not name is removed
Put(rem, config_key, payload) ==
  [k \in DOMAIN rem |-> IF k = config_key THEN payload ELSE <<>>]

\* notifications.topic_configurations / lambda_function_configurations: the
\* attribute is None when the bucket has no list of that type
GetAttr(rem, config_key) ==
  IF rem[config_key] = <<>> THEN [present |-> FALSE, val |-> <<>>]
                            ELSE [present |-> TRUE, val |-> rem[config_key]]

\* OrEmptyList wrapping the None into a list instead of replacing it
OrEmptyListWrapNone(attr) == IF attr.present THEN attr.val ELSE << [Id |-> <<"none", 0>>] >>

\* `if None == cfg: cfg = []`
OrEmptyList(attr) == IF attr.present THEN attr.val ELSE <<>>

(* ------------------------------- state --------------------------------- *)

VARIABLES
  remote,               \* the bucket's notification configuration
  remote0,              \* ghost: the configuration before any run
  args,                 \* args[p]: the parsed command line of run p
  pc,                   \* pc[p]: where run p stands
  ctype,                \* ctype[p]: configuration_type of the current merge
  cfg,                  \* cfg[p]: merge_config's cfg
  newcfg,               \* newcfg[p]: merge_config's newcfg
  notification_config,  \* notification_config[p]: the rule built
  status,               \* status[p]: merge_config's status
  ret,                  \* ret[p][t]: what merge_config(t) returned to main
  outcome,              \* ghost: outcome[p][t], how the merge of type t ended
  fetched,              \* ghost: fetched[p][t], the remote list at the get
  calls,                \* ghost: calls[p], the remote calls issued, in order
  out,                  \* out[p]: what run p printed on standard output
  exitStatus,           \* exitStatus[p]: the process's exit status
  bargs,                \* inputs of a direct json_notification_config call
  built                 \* its result

vars == << remote, remote0, args, pc, ctype, cfg, newcfg, notification_config,
           status, ret, outcome, fetched, calls, out, exitStatus, bargs, built >>

buildVars == << bargs, built >>

\* no value returned / no rule built yet
NoReturn == [returned |-> FALSE, val |-> <<>>]
NoRule == [Id |-> <<"none", 0>>]
Running == "running"
ExitOk == "0"
ExitError == "1"

\* the command lines argparse accepts: -b and -k are required, the rest
\* defaults to None
ArgSets ==
  [ topic_arn  : {None, "arn:aws:sns:mytopic"},
    lambda_arn : {None, "arn:aws:lambda:myfn"},
    key        : {"images/"},
    suffix     : {None, ".jpg"} ]

\* the lists the provider hands out: the rules of one list differ in their Id
RuleLists(S, n) == {l \in SeqUpTo(S, n) : \A i, j \in DOMAIN l : l[i] = l[j] => i = j}

Remotes ==
  [ TopicConfigurations          : RuleLists(ExistingRules("Topic"), MaxLen),
    LambdaFunctionConfigurations : RuleLists(ExistingRules("Lambda"), MaxLen) ]

InitRun ==
  /\ pc = [p \in Procs |-> "main"]
  /\ ctype = [p \in Procs |-> None]
  /\ cfg = [p \in Procs |-> <<>>]
  /\ newcfg = [p \in Procs |-> <<>>]
  /\ notification_config = [p \in Procs |-> NoRule]
  /\ status = [p \in Procs |-> None]
  /\ ret = [p \in Procs |-> [t \in ConfigTypes |-> NoReturn]]
  /\ outcome = [p \in Procs |-> [t \in ConfigTypes |-> "none"]]
  /\ fetched = [p \in Procs |-> [t \in ConfigTypes |-> <<>>]]
  /\ calls = [p \in Procs |-> <<>>]
  /\ out = [p \in Procs |-> <<>>]
  /\ exitStatus = [p \in Procs |-> Running]

NoBuild ==
  /\ bargs = [arn_type |-> "TopicArn", arn |-> None, prefix |-> None, suffix |-> None]
  /\ built = NoRule

Init ==
  /\ remote \in Remotes
  /\ remote0 = remote
  /\ args \in [Procs -> ArgSets]
  /\ args["run2"] = args["run1"]
  /\ InitRun
  /\ NoBuild

(* ------------------------------ helpers -------------------------------- *)

\* copy.deepcopy(cfg): an equal list that shares nothing with cfg
DeepCopy(c) == c

\* NewCfg with the rule put in front
NewCfgPrepend(c, rule) == <<rule>> \o DeepCopy(c)

\* NewCfg overwriting the last entry instead of appending
NewCfgReplaceLast(c, rule) ==
  IF c = <<>> THEN <<rule>> ELSE [DeepCopy(c) EXCEPT ![Len(c)] = rule]

\* newcfg = copy.deepcopy(cfg); newcfg.append(notification_config)
NewCfg(c, rule) == Append(DeepCopy(c), rule)

\* CfgAfterAppend without the deep copy: newcfg and cfg are one list
CfgAliased(c, rule) == Append(c, rule)

\* cfg after the append: the copy was appended to, cfg itself is untouched
CfgAfterAppend(c, rule) == c

\* the body of the clear put
ClearPayload == <<>>

\* WritePayload carrying the new rule alone
WritePayloadRuleOnly(p) == << notification_config[p] >>

\* the body of the put of the merged list
WritePayload(p) == newcfg[p]

\* the body of the rollback put
RollbackPayload(p) == cfg[p]

\* ReturnValue handing back the merged list
ReturnValueNew(p) == [returned |-> TRUE, val |-> newcfg[p]]

\* `return cfg`
ReturnValue(p) == [returned |-> TRUE, val |-> cfg[p]]

\* a remote call, as recorded in calls[p]
Call(phase, config_key, payload, ok) ==
  [phase |-> phase, key |-> config_key, payload |-> payload, ok |-> ok]

\* a printed line: its text and, for a printed list, the list
Line(text, val) == <<text, val>>

\* PrintExisting printing nothing
PrintExistingNothing(c) == <<>>

\* lines 65-66
PrintExisting(c) ==
  << Line("Existing config. PLEASE SAVE THIS FOR ROLLBACK", <<>>), Line("cfg", c) >>

\* lines 71-72
PrintAppending(n) == << Line("Appending new config:", <<>>), Line("newcfg", n) >>

\* line 81
PrintFailed(t) == << Line("Failed to merge " \o t \o " config. Rolling back.", <<>>) >>

\* lines 88-89
PrintFatal(t) ==
  << Line("Fatal error. You may have lost your " \o t \o " notification configuration", <<>>) >>

\* line 92
PrintMerged(t) == << Line("Config merged for " \o t, <<>>) >>

\* PrintStatus with the status hard-wired
PrintStatusSucceed(t, st) == << Line(t \o " merging done with status succeed", <<>>) >>

\* line 94
PrintStatus(t, st) == << Line(t \o " merging done with status " \o st, <<>>) >>

(* ------------------------------- main ---------------------------------- *)

\* ArgumentError without the raise: main runs on to its end
ArgumentErrorNotRaised(p) ==
  /\ pc[p] = "main"
  /\ args[p].topic_arn = None /\ args[p].lambda_arn = None
  /\ pc' = [pc EXCEPT ![p] = "exit"]
  /\ exitStatus' = [exitStatus EXCEPT ![p] = ExitOk]
  /\ UNCHANGED << remote, remote0, args, ctype, cfg, newcfg, notification_config,
                  status, ret, outcome, fetched, calls, out, buildVars >>

\* lines 159-161: neither ARN given, the ArgumentError leaves main uncaught
ArgumentError(p) ==
  /\ pc[p] = "main"
  /\ args[p].topic_arn = None /\ args[p].lambda_arn = None
  /\ pc' = [pc EXCEPT ![p] = "exit"]
  /\ exitStatus' = [exitStatus EXCEPT ![p] = ExitError]
  /\ UNCHANGED << remote, remote0, args, ctype, cfg, newcfg, notification_config,
                  status, ret, outcome, fetched, calls, out, buildVars >>

\* entering merge_config: fresh locals
EnterMerge(p, t) ==
  /\ pc' = [pc EXCEPT ![p] = "fetch"]
  /\ ctype' = [ctype EXCEPT ![p] = t]
  /\ cfg' = [cfg EXCEPT ![p] = <<>>]
  /\ newcfg' = [newcfg EXCEPT ![p] = <<>>]
  /\ notification_config' = [notification_config EXCEPT ![p] = NoRule]
  /\ status' = [status EXCEPT ![p] = None]
  /\ UNCHANGED << remote, remote0, args, ret, outcome, fetched, calls, out,
                  exitStatus, buildVars >>

\* lines 162-164
CallMergeTopic(p) ==
  /\ pc[p] = "main"
  /\ args[p].topic_arn # None
  /\ EnterMerge(p, "Topic")

\* CallMergeLambda not waiting for the Topic branch
CallMergeLambdaEarly(p) ==
  /\ \/ pc[p] = "main"
     \/ pc[p] = "returned" /\ ctype[p] = "Topic"
  /\ args[p].lambda_arn # None
  /\ EnterMerge(p, "Lambda")

\* lines 165-167: reached when the Topic branch was skipped or has returned
CallMergeLambda(p) ==
  /\ \/ pc[p] = "main" /\ args[p].topic_arn = None
     \/ pc[p] = "returned" /\ ctype[p] = "Topic"
  /\ args[p].lambda_arn # None
  /\ EnterMerge(p, "Lambda")

\* main falls off its end
MainExit(p) ==
  /\ pc[p] = "returned"
  /\ ctype[p] = "Lambda" \/ args[p].lambda_arn = None
  /\ pc' = [pc EXCEPT ![p] = "exit"]
  /\ exitStatus' = [exitStatus EXCEPT ![p] = ExitOk]
  /\ UNCHANGED << remote, remote0, args, ctype, cfg, newcfg, notification_config,
                  status, ret, outcome, fetched, calls, out, buildVars >>

(* ---------------------------- merge_config ----------------------------- *)

\* lines 42-67: the get succeeds, the rule is built, the original is printed
FetchOk(p) ==
  /\ pc[p] = "fetch"
  /\ \E uuid_id \in Uuids :
       LET t == ctype[p]
           k == ConfigKey(t)
           c == OrEmptyList(GetAttr(remote, k))
       IN /\ cfg' = [cfg EXCEPT ![p] = c]
          /\ notification_config' = [notification_config EXCEPT ![p] =
                 json_notification_config(ArnType(t),
                    IF t = "Lambda" THEN args[p].lambda_arn ELSE args[p].topic_arn,
                    args[p].key, args[p].suffix, uuid_id)]
          /\ fetched' = [fetched EXCEPT ![p][t] = remote[k]]
          /\ calls' = [calls EXCEPT ![p] = Append(@, Call("get", k, <<>>, TRUE))]
          /\ out' = [out EXCEPT ![p] = @ \o PrintExisting(c)]
  /\ status' = [status EXCEPT ![p] = "succeed"]
  /\ pc' = [pc EXCEPT ![p] = "clear"]
  /\ UNCHANGED << remote, remote0, args, ctype, newcfg, ret, outcome,
                  exitStatus, buildVars >>

\* FetchFail with the get inside the try: the handler rolls back
FetchFailCaught(p) ==
  /\ pc[p] = "fetch"
  /\ calls' = [calls EXCEPT ![p] =
                 Append(@, Call("get", ConfigKey(ctype[p]), <<>>, FALSE))]
  /\ status' = [status EXCEPT ![p] = "fail"]
  /\ out' = [out EXCEPT ![p] = @ \o PrintFailed(ctype[p])]
  /\ outcome' = [outcome EXCEPT ![p][ctype[p]] = "FetchFailed"]
  /\ pc' = [pc EXCEPT ![p] = "rollback"]
  /\ UNCHANGED << remote, remote0, args, ctype, cfg, newcfg, notification_config,
                  ret, fetched, exitStatus, buildVars >>

\* lines 44-55: the get raises, outside the try: the error leaves main
FetchFail(p) ==
  /\ pc[p] = "fetch"
  /\ calls' = [calls EXCEPT ![p] =
                 Append(@, Call("get", ConfigKey(ctype[p]), <<>>, FALSE))]
  /\ outcome' = [outcome EXCEPT ![p][ctype[p]] = "FetchFailed"]
  /\ pc' = [pc EXCEPT ![p] = "exit"]
  /\ exitStatus' = [exitStatus EXCEPT ![p] = ExitError]
  /\ UNCHANGED << remote, remote0, args, ctype, cfg, newcfg, notification_config,
                  status, ret, fetched, out, buildVars >>

\* lines 69-72: the append, common to ClearOk and ClearFail
AppendStep(p) ==
  /\ newcfg' = [newcfg EXCEPT ![p] = NewCfg(cfg[p], notification_config[p])]
  /\ cfg' = [cfg EXCEPT ![p] = CfgAfterAppend(cfg[p], notification_config[p])]

\* ClearOk without the clear put: the merged put follows the append at once
ClearOkNoPut(p) ==
  /\ pc[p] = "clear"
  /\ AppendStep(p)
  /\ out' = [out EXCEPT ![p] = @ \o PrintAppending(newcfg'[p])]
  /\ pc' = [pc EXCEPT ![p] = "write"]
  /\ UNCHANGED << remote, remote0, args, ctype, notification_config, status, ret,
                  outcome, fetched, calls, exitStatus, buildVars >>

\* lines 69-75: append, then the put of the empty list succeeds
ClearOk(p) ==
  /\ pc[p] = "clear"
  /\ AppendStep(p)
  /\ remote' = Put(remote, ConfigKey(ctype[p]), ClearPayload)
  /\ calls' = [calls EXCEPT ![p] =
                 Append(@, Call("clear", ConfigKey(ctype[p]), ClearPayload, TRUE))]
  /\ out' = [out EXCEPT ![p] = @ \o PrintAppending(newcfg'[p])]
  /\ pc' = [pc EXCEPT ![p] = "write"]
  /\ UNCHANGED << remote0, args, ctype, notification_config, status, ret, outcome,
                  fetched, exitStatus, buildVars >>

\* ClearFail with the exception swallowed: the merged put follows
ClearFailIgnored(p) ==
  /\ pc[p] = "clear"
  /\ AppendStep(p)
  /\ calls' = [calls EXCEPT ![p] =
                 Append(@, Call("clear", ConfigKey(ctype[p]), ClearPayload, FALSE))]
  /\ out' = [out EXCEPT ![p] = @ \o PrintAppending(newcfg'[p])]
  /\ pc' = [pc EXCEPT ![p] = "write"]
  /\ UNCHANGED << remote, remote0, args, ctype, notification_config, status, ret,
                  outcome, fetched, exitStatus, buildVars >>

\* lines 69-81: append, the put of the empty list raises, the handler starts
ClearFail(p) ==
  /\ pc[p] = "clear"
  /\ AppendStep(p)
  /\ calls' = [calls EXCEPT ![p] =
                 Append(@, Call("clear", ConfigKey(ctype[p]), ClearPayload, FALSE))]
  /\ status' = [status EXCEPT ![p] = "fail"]
  /\ out' = [out EXCEPT ![p] = @ \o PrintAppending(newcfg'[p]) \o PrintFailed(ctype[p])]
  /\ pc' = [pc EXCEPT ![p] = "rollback"]
  /\ UNCHANGED << remote, remote0, args, ctype, notification_config, ret, outcome,
                  fetched, exitStatus, buildVars >>

\* lines 76-78 and 91-95: the put of the merged list succeeds, cfg is returned
WriteNewOk(p) ==
  /\ pc[p] = "write"
  /\ remote' = Put(remote, ConfigKey(ctype[p]), WritePayload(p))
  /\ calls' = [calls EXCEPT ![p] =
                 Append(@, Call("write", ConfigKey(ctype[p]), WritePayload(p), TRUE))]
  /\ out' = [out EXCEPT ![p] =
               @ \o PrintMerged(ctype[p]) \o PrintStatus(ctype[p], status[p])]
  /\ ret' = [ret EXCEPT ![p][ctype[p]] = ReturnValue(p)]
  /\ outcome' = [outcome EXCEPT ![p][ctype[p]] = "Done"]
  /\ pc' = [pc EXCEPT ![p] = "returned"]
  /\ UNCHANGED << remote0, args, ctype, cfg, newcfg, notification_config, status,
                  fetched, exitStatus, buildVars >>

\* WriteNewFail putting the merged list again instead of rolling back
WriteNewFailRetry(p) ==
  /\ pc[p] = "write"
  /\ calls' = [calls EXCEPT ![p] =
                 Append(@, Call("write", ConfigKey(ctype[p]), WritePayload(p), FALSE))]
  /\ UNCHANGED << remote, remote0, args, pc, ctype, cfg, newcfg, notification_config,
                  status, out, ret, outcome, fetched, exitStatus, buildVars >>

\* lines 76-81: the put of the merged list raises, the handler starts
WriteNewFail(p) ==
  /\ pc[p] = "write"
  /\ calls' = [calls EXCEPT ![p] =
                 Append(@, Call("write", ConfigKey(ctype[p]), WritePayload(p), FALSE))]
  /\ status' = [status EXCEPT ![p] = "fail"]
  /\ out' = [out EXCEPT ![p] = @ \o PrintFailed(ctype[p])]
  /\ pc' = [pc EXCEPT ![p] = "rollback"]
  /\ UNCHANGED << remote, remote0, args, ctype, cfg, newcfg, notification_config,
                  ret, outcome, fetched, exitStatus, buildVars >>

\* RollbackOk with the error raised again after the rollback went through
RollbackOkRaises(p) ==
  /\ pc[p] = "rollback"
  /\ remote' = Put(remote, ConfigKey(ctype[p]), RollbackPayload(p))
  /\ calls' = [calls EXCEPT ![p] =
                 Append(@, Call("rollback", ConfigKey(ctype[p]), RollbackPayload(p), TRUE))]
  /\ out' = [out EXCEPT ![p] = @ \o PrintStatus(ctype[p], status[p])]
  /\ outcome' = [outcome EXCEPT ![p][ctype[p]] = "RolledBack"]
  /\ pc' = [pc EXCEPT ![p] = "exit"]
  /\ exitStatus' = [exitStatus EXCEPT ![p] = ExitError]
  /\ UNCHANGED << remote0, args, ctype, cfg, newcfg, notification_config, status,
                  ret, fetched, buildVars >>

\* lines 82-86 and 93-95: the rollback put succeeds, cfg is returned
RollbackOk(p) ==
  /\ pc[p] = "rollback"
  /\ remote' = Put(remote, ConfigKey(ctype[p]), RollbackPayload(p))
  /\ calls' = [calls EXCEPT ![p] =
                 Append(@, Call("rollback", ConfigKey(ctype[p]), RollbackPayload(p), TRUE))]
  /\ out' = [out EXCEPT ![p] = @ \o PrintStatus(ctype[p], status[p])]
  /\ ret' = [ret EXCEPT ![p][ctype[p]] = ReturnValue(p)]
  /\ outcome' = [outcome EXCEPT ![p][ctype[p]] = "RolledBack"]
  /\ pc' = [pc EXCEPT ![p] = "returned"]
  /\ UNCHANGED << remote0, args, ctype, cfg, newcfg, notification_config, status,
                  fetched, exitStatus, buildVars >>

\* RollbackFail without the re-raise: merge_config returns cfg
RollbackFailSwallowed(p) ==
  /\ pc[p] = "rollback"
  /\ calls' = [calls EXCEPT ![p] =
                 Append(@, Call("rollback", ConfigKey(ctype[p]), RollbackPayload(p), FALSE))]
  /\ out' = [out EXCEPT ![p] =
               @ \o PrintFatal(ctype[p]) \o PrintStatus(ctype[p], status[p])]
  /\ ret' = [ret EXCEPT ![p][ctype[p]] = ReturnValue(p)]
  /\ outcome' = [outcome EXCEPT ![p][ctype[p]] = "FatalLoss"]
  /\ pc' = [pc EXCEPT ![p] = "returned"]
  /\ UNCHANGED << remote, remote0, args, ctype, cfg, newcfg, notification_config,
                  status, fetched, exitStatus, buildVars >>

\* lines 82-94: the rollback put raises too; the error is re-raised, passes
\* the finally clause and leaves main
RollbackFail(p) ==
  /\ pc[p] = "rollback"
  /\ calls' = [calls EXCEPT ![p] =
                 Append(@, Call("rollback", ConfigKey(ctype[p]), RollbackPayload(p), FALSE))]
  /\ out' = [out EXCEPT ![p] =
               @ \o PrintFatal(ctype[p]) \o PrintStatus(ctype[p], status[p])]
  /\ outcome' = [outcome EXCEPT ![p][ctype[p]] = "FatalLoss"]
  /\ pc' = [pc EXCEPT ![p] = "exit"]
  /\ exitStatus' = [exitStatus EXCEPT ![p] = ExitError]
  /\ UNCHANGED << remote, remote0, args, ctype, cfg, newcfg, notification_config,
                  status, ret, fetched, buildVars >>

(* ---------------------------- specifications --------------------------- *)

\* one run of the tool, alone on the bucket
Next ==
  \/ ArgumentError("run1")
  \/ CallMergeTopic("run1")
  \/ CallMergeLambda("run1")
  \/ MainExit("run1")
  \/ FetchOk("run1")
  \/ FetchFail("run1")
  \/ ClearOk("run1")
  \/ ClearFail("run1")
  \/ WriteNewOk("run1")
  \/ WriteNewFail("run1")
  \/ RollbackOk("run1")
  \/ RollbackFail("run1")

Spec == Init /\ [][Next]_vars

\* a run of the tool: every step it can take
Run(p) ==
  \/ ArgumentError(p)
  \/ CallMergeTopic(p)
  \/ CallMergeLambda(p)
  \/ MainExit(p)
  \/ FetchOk(p)
  \/ FetchFail(p)
  \/ ClearOk(p)
  \/ ClearFail(p)
  \/ WriteNewOk(p)
  \/ WriteNewFail(p)
  \/ RollbackOk(p)
  \/ RollbackFail(p)

\* the command lines of two runs started on the same bucket at the same
\* time: the first is given at least one ARN, the second at most one
RaceArgSets ==
  { a \in [Procs -> ArgSets] :
      /\ \A p \in Procs : a[p].suffix = None
      /\ a["run1"].topic_arn # None \/ a["run1"].lambda_arn # None
      /\ a["run2"].topic_arn = None \/ a["run2"].lambda_arn = None }

\* the second run names its own targets
OwnTargets(a) ==
  [a EXCEPT !["run2"].topic_arn  = IF @ = None THEN None ELSE "arn:aws:sns:othertopic",
            !["run2"].lambda_arn = IF @ = None THEN None ELSE "arn:aws:lambda:otherfn"]

\* the list of type t the bucket starts with in a race: the first k rules
RaceList(t, k) == [i \in 1..k |-> ExistingRule(t, ((i - 1) % NumExisting) + 1)]

RaceRemotes ==
  [ TopicConfigurations          : {RaceList("Topic", k) : k \in 0..MaxLen},
    LambdaFunctionConfigurations : {RaceList("Lambda", k) : k \in 0..MaxLen} ]

InitRace ==
  /\ remote \in RaceRemotes
  /\ remote0 = remote
  /\ args \in {OwnTargets(a) : a \in RaceArgSets}
  /\ InitRun
  /\ NoBuild

\* two runs of the tool on the same bucket, their remote calls interleaved
NextRace == \E p \in Procs : Run(p)

SpecRace == InitRace /\ [][NextRace]_vars

(* -------------------- json_notification_config alone ------------------ *)

\* the arguments json_notification_config may be called with: any strings,
\* prefix and suffix possibly None, suffix "" when the caller leaves it out
BuildArgSets ==
  [ arn_type : {"TopicArn", "LambdaFunctionArn"},
    arn      : {"arn:aws:sns:mytopic", "arn:aws:lambda:myfn"},
    prefix   : {None, "", "images/", "logs/"},
    suffix   : {None, "", ".jpg"} ]

InitBuild ==
  /\ remote = [TopicConfigurations |-> <<>>, LambdaFunctionConfigurations |-> <<>>]
  /\ remote0 = remote
  /\ args = [p \in Procs |-> [topic_arn |-> None, lambda_arn |-> None,
                              key |-> "images/", suffix |-> None]]
  /\ InitRun
  /\ bargs \in BuildArgSets
  /\ built = NoRule

\* one call of json_notification_config(arn_type, arn, prefix, suffix)
Build ==
  /\ built = NoRule
  /\ \E uuid_id \in Uuids :
       built' = json_notification_config(bargs.arn_type, bargs.arn,
                                         bargs.prefix, bargs.suffix, uuid_id)
  /\ UNCHANGED << remote, remote0, args, pc, ctype, cfg, newcfg,
                  notification_config, status, ret, outcome, fetched, calls,
                  out, exitStatus, bargs >>

NextBuild == Build

SpecBuild == InitBuild /\ [][NextBuild]_vars

(* ------------------------------ properties ----------------------------- *)

\* the run the single-run properties speak of
TheRun == "run1"

TypeOfKey(k) == IF k = "LambdaFunctionConfigurations" THEN "Lambda" ELSE "Topic"

Range(seq) == {seq[i] : i \in DOMAIN seq}

\* the positions in calls[p] of the remote calls of the merge on key k
CallsOn(p, k) == {i \in DOMAIN calls[p] : calls[p][i].key = k}

\* the positions of the calls of one phase of that merge
PhaseCalls(p, k, phase) == {i \in CallsOn(p, k) : calls[p][i].phase = phase}

PhaseOk(p, k, phase) == \E i \in PhaseCalls(p, k, phase) : calls[p][i].ok

PhaseFailed(p, k, phase) == \E i \in PhaseCalls(p, k, phase) : ~calls[p][i].ok

\* merge_config(t) was entered and issued its get
Started(p, t) == PhaseCalls(p, ConfigKey(t), "get") # {}

\* merge_config(t) has just returned to main
AtReturnOf(p, t) == pc[p] = "returned" /\ ctype[p] = t

\* only the ARN of type t was given on the command line
OnlyArn(p, t) ==
  IF t = "Topic" THEN args[p].topic_arn # None /\ args[p].lambda_arn = None
                 ELSE args[p].topic_arn = None /\ args[p].lambda_arn # None

BothArns(p) == args[p].topic_arn # None /\ args[p].lambda_arn # None

\* C1: when merge_config returns after the clear put and the merged put both
\* succeeded, the remote list of the merged type is the list as fetched with
\* the new rule appended: length N+1, the first N entries those fetched, in
\* order, the new rule last.
C1_SuccessfulMergeAppends ==
  \A t \in ConfigTypes :
    LET k == ConfigKey(t)
        L == fetched[TheRun][t]
        R == remote[k]
    IN (/\ AtReturnOf(TheRun, t)
        /\ PhaseOk(TheRun, k, "clear")
        /\ PhaseOk(TheRun, k, "write"))
       => /\ Len(R) = Len(L) + 1
          /\ \A i \in 1..Len(L) : R[i] = L[i]
          /\ R[Len(R)] = notification_config[TheRun]
          /\ R = Append(L, notification_config[TheRun])

\* C1 witness: a successful merge onto a list of two different rules
C1_Witness ==
  \E t \in ConfigTypes :
    /\ AtReturnOf(TheRun, t)
    /\ outcome[TheRun][t] = "Done"
    /\ Len(fetched[TheRun][t]) >= 2
    /\ fetched[TheRun][t][1] # fetched[TheRun][t][2]
    /\ Len(remote[ConfigKey(t)]) = Len(fetched[TheRun][t]) + 1

\* C2: every rollback put carries the list as fetched, without the new rule;
\* and when the merged put failed and merge_config has returned (the rollback
\* put went through), the remote list of that type is the original list.
C2_RollbackRestoresOriginal ==
  \A t \in ConfigTypes :
    LET k == ConfigKey(t)
        L == fetched[TheRun][t]
    IN /\ \A i \in PhaseCalls(TheRun, k, "rollback") :
            /\ calls[TheRun][i].payload = L
            /\ notification_config[TheRun] \notin Range(calls[TheRun][i].payload)
       /\ (AtReturnOf(TheRun, t) /\ PhaseFailed(TheRun, k, "write"))
            => /\ PhaseOk(TheRun, k, "rollback")
               /\ remote[k] = L
               /\ Len(remote[k]) = Len(L)

\* C2 witness: the merged put failed on a list of two rules and the rollback
\* put went through
C2_Witness ==
  \E t \in ConfigTypes :
    /\ AtReturnOf(TheRun, t)
    /\ PhaseFailed(TheRun, ConfigKey(t), "write")
    /\ outcome[TheRun][t] = "RolledBack"
    /\ Len(fetched[TheRun][t]) >= 2

\* C3: a run given the ARN of one type only never changes the bucket's list
\* of the other type.
C3_OtherTypeUntouched ==
  \A t \in ConfigTypes :
    OnlyArn(TheRun, t) =>
      remote[OtherKey(ConfigKey(t))] = remote0[OtherKey(ConfigKey(t))]

\* C4 as stated: in every terminal outcome, FatalLoss included, the caller
\* has received the list as fetched.
C4_ReturnsOriginalInEveryOutcome ==
  \A t \in ConfigTypes :
    outcome[TheRun][t] \in {"Done", "RolledBack", "FatalLoss"}
      => ret[TheRun][t] = [returned |-> TRUE, val |-> fetched[TheRun][t]]

\* C4 amended: in every outcome in which merge_config returns (Done,
\* RolledBack) the caller receives the list as fetched; in FatalLoss the error
\* propagates and no value is returned.
C4_ReturnsOriginalWhenItReturns ==
  \A t \in ConfigTypes :
    /\ outcome[TheRun][t] \in {"Done", "RolledBack"}
         => ret[TheRun][t] = [returned |-> TRUE, val |-> fetched[TheRun][t]]
    /\ outcome[TheRun][t] = "FatalLoss" => ~ret[TheRun][t].returned

\* C4 witness: a failed merge, rolled back, returns a non-empty original
C4_Witness ==
  \E t \in ConfigTypes :
    /\ outcome[TheRun][t] = "RolledBack"
    /\ ret[TheRun][t].returned
    /\ Len(ret[TheRun][t].val) >= 1

\* C5: a merge whose clear put or merged put failed issues exactly one
\* rollback put, of the original list, and no merge issues more than one;
\* a failed rollback put ends the merge in FatalLoss, the error leaving
\* merge_config and the process ending with a non-zero status; a rollback put
\* that succeeds ends the merge in RolledBack.
C5_OneRollbackThenFatalOrRolledBack ==
  \A t \in ConfigTypes :
    LET k == ConfigKey(t)
        rb == PhaseCalls(TheRun, k, "rollback")
        failed == PhaseFailed(TheRun, k, "clear") \/ PhaseFailed(TheRun, k, "write")
    IN /\ Cardinality(rb) <= 1
       /\ rb # {} => failed
       /\ (failed /\ ~(pc[TheRun] = "rollback" /\ ctype[TheRun] = t))
            => /\ Cardinality(rb) = 1
               /\ \A i \in rb : calls[TheRun][i].payload = fetched[TheRun][t]
       /\ PhaseFailed(TheRun, k, "rollback")
            <=> outcome[TheRun][t] = "FatalLoss"
       /\ outcome[TheRun][t] = "FatalLoss"
            => /\ pc[TheRun] = "exit"
               /\ exitStatus[TheRun] = ExitError
               /\ ~ret[TheRun][t].returned
       /\ PhaseOk(TheRun, k, "rollback")
            <=> outcome[TheRun][t] = "RolledBack"

\* C5 witness: the clear put failed, then the rollback put failed
C5_Witness ==
  \E t \in ConfigTypes :
    /\ PhaseFailed(TheRun, ConfigKey(t), "clear")
    /\ PhaseFailed(TheRun, ConfigKey(t), "rollback")
    /\ outcome[TheRun][t] = "FatalLoss"
    /\ exitStatus[TheRun] = ExitError

\* C6: a run given neither ARN issues no remote call, leaves the remote
\* configuration as it was, and ends with an error status.
C6_NoArnNoRemoteCall ==
  (args[TheRun].topic_arn = None /\ args[TheRun].lambda_arn = None)
    => /\ calls[TheRun] = <<>>
       /\ remote = remote0
       /\ pc[TheRun] \in {"main", "exit"}
       /\ pc[TheRun] = "exit" => exitStatus[TheRun] = ExitError

\* C6 witness: the run without ARNs has ended, on a bucket that has rules
C6_Witness ==
  /\ args[TheRun].topic_arn = None /\ args[TheRun].lambda_arn = None
  /\ pc[TheRun] = "exit"
  /\ remote0.TopicConfigurations # <<>>

\* C7 as stated: with both ARNs given, every run that has ended has started
\* the Lambda merge, whatever the terminal state (Done, RolledBack,
\* FatalLoss) the Topic merge reached.
C7_LambdaStartedInEveryRun ==
  (/\ BothArns(TheRun)
   /\ pc[TheRun] = "exit"
   /\ outcome[TheRun]["Topic"] \in {"Done", "RolledBack", "FatalLoss"})
    => Started(TheRun, "Lambda")

\* C7 amended: with both ARNs given the Topic merge comes first; the Lambda
\* merge is started only after the Topic merge has returned (Done or
\* RolledBack), and every run whose Topic merge returned starts it; a Topic
\* merge that ends with a propagated error (FatalLoss, failed get) ends the
\* process and the Lambda merge is never started.
C7_LambdaAfterTopicReturned ==
  BothArns(TheRun) =>
    /\ (ctype[TheRun] = "Lambda" \/ Started(TheRun, "Lambda"))
         => outcome[TheRun]["Topic"] \in {"Done", "RolledBack"}
    /\ \A i \in CallsOn(TheRun, ConfigKey("Topic")) :
         \A j \in CallsOn(TheRun, ConfigKey("Lambda")) : i < j
    /\ (pc[TheRun] = "exit" /\ outcome[TheRun]["Topic"] \in {"Done", "RolledBack"})
         => Started(TheRun, "Lambda")
    /\ outcome[TheRun]["Topic"] \in {"FatalLoss", "FetchFailed"}
         => /\ ~Started(TheRun, "Lambda")
            /\ pc[TheRun] = "exit"
            /\ exitStatus[TheRun] = ExitError

\* C7 witness: the Topic merge was rolled back and the Lambda merge started
C7_Witness ==
  /\ BothArns(TheRun)
  /\ outcome[TheRun]["Topic"] = "RolledBack"
  /\ Started(TheRun, "Lambda")

\* C8: whatever another run did to the bucket since this run's get, the step
\* in which a run's merged put succeeds reports success and leaves the remote
\* list of that type equal to the list this run fetched plus its new rule.
C8_SuccessWritesFetchedPlusRule ==
  [][\A p \in Procs :
       (pc[p] = "write" /\ pc'[p] = "returned")
         => /\ outcome'[p][ctype[p]] = "Done"
            /\ status'[p] = "succeed"
            /\ remote'[ConfigKey(ctype[p])]
                 = Append(fetched[p][ctype[p]], notification_config[p])]_vars

\* C8 witness: two runs on the same bucket and type have both ended
\* reporting success, and the remote list holds the new rule of only one
C8_Witness ==
  \E t \in ConfigTypes :
    /\ \A p \in Procs :
         /\ pc[p] = "exit" /\ exitStatus[p] = ExitOk
         /\ ctype[p] = t
         /\ outcome[p][t] = "Done" /\ status[p] = "succeed"
    /\ notification_config["run1"] # notification_config["run2"]
    /\ notification_config["run2"] \in Range(remote[ConfigKey(t)])
    /\ notification_config["run1"] \notin Range(remote[ConfigKey(t)])
    /\ Len(remote[ConfigKey(t)]) = Len(remote0[ConfigKey(t)]) + 1

\* C9: the rule built has exactly the two filter entries Suffix, Prefix in
\* this order with the given values ("" for None), exactly the one event
\* "s3:ObjectCreated:*", and the ARN under the field named by arn_type.
C9_RuleShape ==
  "Filter" \in DOMAIN built =>
    LET fr == built.Filter.Key.FilterRules
    IN /\ Len(fr) = 2
       /\ fr[1].Name = "Suffix"
       /\ fr[1].Value = (IF bargs.suffix = None THEN "" ELSE bargs.suffix)
       /\ fr[2].Name = "Prefix"
       /\ fr[2].Value = (IF bargs.prefix = None THEN "" ELSE bargs.prefix)
       /\ Len(built.Events) = 1
       /\ built.Events[1] = "s3:ObjectCreated:*"
       /\ DOMAIN built = {"Filter", "Id", "Events", bargs.arn_type}
       /\ built[bargs.arn_type] = bargs.arn

\* C9 witness: a rule built with prefix and suffix both absent
C9_Witness ==
  /\ "Filter" \in DOMAIN built
  /\ bargs.prefix = None /\ bargs.suffix = None
  /\ bargs.arn_type = "LambdaFunctionArn"

\* C10: within a merge every clear put directly follows the successful get,
\* every merged put directly follows a successful clear put, and every
\* rollback put directly follows a failed clear put or a failed merged put.
C10_CallOrder ==
  \A i \in DOMAIN calls[TheRun] :
    LET c == calls[TheRun][i]
        prev == calls[TheRun][i - 1]
    IN /\ c.phase = "clear"
            => i > 1 /\ prev.key = c.key /\ prev.phase = "get" /\ prev.ok
       /\ c.phase = "write"
            => i > 1 /\ prev.key = c.key /\ prev.phase = "clear" /\ prev.ok
       /\ c.phase = "rollback"
            => i > 1 /\ prev.key = c.key /\ prev.phase \in {"clear", "write"}
                     /\ ~prev.ok
       /\ c.phase = "clear" => c.payload = <<>>

\* C10 witness: get, clear put, failed merged put, rollback put
C10_Witness ==
  /\ Len(calls[TheRun]) = 4
  /\ calls[TheRun][2].phase = "clear" /\ calls[TheRun][2].ok
  /\ calls[TheRun][3].phase = "write" /\ ~calls[TheRun][3].ok
  /\ calls[TheRun][4].phase = "rollback"

\* the get of merge_config(t) went through: cfg and the rule exist
Fetched(p, t) == PhaseOk(p, ConfigKey(t), "get")

\* the positions of the puts (clear, merged, rollback) of the merge on key k
PutCalls(p, k) == {i \in CallsOn(p, k) : calls[p][i].phase # "get"}

\* run p is inside, or has just left, merge_config(t), its get done
InMerge(p, t) == ctype[p] = t /\ Fetched(p, t)

\* C11: between the clear put and the merged put the remote list of the
\* merged type is empty, and every merge that ends in Done went through
\* that state: its clear put succeeded, directly before its merged put.
C11_EmptyWindow ==
  \A t \in ConfigTypes :
    LET k == ConfigKey(t)
        n == Len(calls[TheRun])
    IN /\ (pc[TheRun] = "write" /\ ctype[TheRun] = t)
            => /\ remote[k] = <<>>
               /\ n >= 1 /\ calls[TheRun][n].phase = "clear"
               /\ calls[TheRun][n].key = k /\ calls[TheRun][n].ok
       /\ outcome[TheRun][t] = "Done"
            => \E i \in PhaseCalls(TheRun, k, "clear") :
                  /\ calls[TheRun][i].ok
                  /\ calls[TheRun][i].payload = <<>>
                  /\ calls[TheRun][i + 1].phase = "write"
                  /\ calls[TheRun][i + 1].key = k

\* C11 witness: a merge onto a non-empty list stands between its clear put
\* and its merged put, the remote list empty
C11_Witness ==
  \E t \in ConfigTypes :
    /\ pc[TheRun] = "write" /\ ctype[TheRun] = t
    /\ fetched[TheRun][t] # <<>>
    /\ remote[ConfigKey(t)] = <<>>

\* C12: alone on the bucket, from its get on a merge sees the remote list of
\* its type only as the original list, the empty list, or the original list
\* with the new rule appended; after FatalLoss the list is empty when the
\* merged put had failed and the original when the clear put had failed.
C12_RemoteOneOfThree ==
  \A t \in ConfigTypes :
    LET k == ConfigKey(t)
        L == fetched[TheRun][t]
    IN /\ InMerge(TheRun, t)
            => remote[k] \in {L, <<>>, Append(L, notification_config[TheRun])}
       /\ (InMerge(TheRun, t) /\ outcome[TheRun][t] = "FatalLoss")
            => /\ PhaseFailed(TheRun, k, "write") => remote[k] = <<>>
               /\ PhaseFailed(TheRun, k, "clear") => remote[k] = L
               /\ PhaseFailed(TheRun, k, "write") \/ PhaseFailed(TheRun, k, "clear")

\* C12 witness: FatalLoss after a failed merged put onto a non-empty list
C12_Witness ==
  \E t \in ConfigTypes :
    /\ InMerge(TheRun, t)
    /\ outcome[TheRun][t] = "FatalLoss"
    /\ PhaseFailed(TheRun, ConfigKey(t), "write")
    /\ fetched[TheRun][t] # <<>>
    /\ remote[ConfigKey(t)] = <<>>

\* C13: a merge whose get failed has issued no put of any kind, clear,
\* merged or rollback, has returned nothing and has ended the process with
\* the error; and the step in which the get fails leaves the remote
\* configuration as it was.
C13_FetchFailureNoPut ==
  /\ [](\A t \in ConfigTypes :
          outcome[TheRun][t] = "FetchFailed"
            => /\ PutCalls(TheRun, ConfigKey(t)) = {}
               /\ calls[TheRun][Len(calls[TheRun])].phase = "get"
               /\ ~calls[TheRun][Len(calls[TheRun])].ok
               /\ ~ret[TheRun][t].returned
               /\ pc[TheRun] = "exit"
               /\ exitStatus[TheRun] = ExitError)
  /\ [][\A t \in ConfigTypes :
          (outcome[TheRun][t] # "FetchFailed" /\ outcome'[TheRun][t] = "FetchFailed")
            => remote' = remote]_vars

\* C13 witness: the get failed on a bucket that holds rules of that type
C13_Witness ==
  \E t \in ConfigTypes :
    /\ outcome[TheRun][t] = "FetchFailed"
    /\ remote[ConfigKey(t)] # <<>>
    /\ pc[TheRun] = "exit"

\* some merge of the run ended with one of the given outcomes
SomeOutcome(p, S) == \E t \in ConfigTypes : outcome[p][t] \in S

NeitherArn(p) == args[p].topic_arn = None /\ args[p].lambda_arn = None

\* C14, the part about the swallowed failure: a merge that was rolled back
\* has returned to main, which went on to the Lambda merge when a lambda ARN
\* was given; at that return the new rule is not in the remote list.
C14_RolledBackIsSwallowed ==
  \A t \in ConfigTypes :
    outcome[TheRun][t] = "RolledBack"
      => /\ ret[TheRun][t].returned
         /\ AtReturnOf(TheRun, t)
              => /\ notification_config[TheRun] \notin Range(remote[ConfigKey(t)])
                 /\ exitStatus[TheRun] = Running
         /\ (t = "Topic" /\ args[TheRun].lambda_arn # None /\ pc[TheRun] = "exit")
              => Started(TheRun, "Lambda")

\* C14 as stated: the rolled-back failure is swallowed, and a run that has
\* ended has an error status exactly when it was given no ARN or a rollback
\* put failed.
C14_ErrorOnlyFromRollbackOrArguments ==
  /\ C14_RolledBackIsSwallowed
  /\ pc[TheRun] = "exit"
       => (exitStatus[TheRun] = ExitError
             <=> NeitherArn(TheRun) \/ SomeOutcome(TheRun, {"FatalLoss"}))

\* C14 amended: the rolled-back failure is swallowed, and a run that has
\* ended has an error status exactly when it was given no ARN, a rollback
\* put failed, or a get failed.
C14_ErrorFromRollbackFetchOrArguments ==
  /\ C14_RolledBackIsSwallowed
  /\ pc[TheRun] = "exit"
       => /\ exitStatus[TheRun] \in {ExitOk, ExitError}
          /\ exitStatus[TheRun] = ExitError
               <=> \/ NeitherArn(TheRun)
                   \/ SomeOutcome(TheRun, {"FatalLoss", "FetchFailed"})

\* C14 witness: the Topic merge was rolled back, the Lambda merge ran and
\* the process ended without an error status
C14_Witness ==
  /\ BothArns(TheRun)
  /\ outcome[TheRun]["Topic"] = "RolledBack"
  /\ Started(TheRun, "Lambda")
  /\ pc[TheRun] = "exit"
  /\ exitStatus[TheRun] = ExitOk

\* C15: when the get finds no list of the requested type, cfg is the empty
\* list: a successful merge leaves the remote list equal to [new rule], a
\* rollback put carries the empty list, and the empty list is returned.
C15_AbsentIsEmpty ==
  \A t \in ConfigTypes :
    LET k == ConfigKey(t)
    IN (Fetched(TheRun, t) /\ fetched[TheRun][t] = <<>>)
         => /\ ctype[TheRun] = t => cfg[TheRun] = <<>>
            /\ (AtReturnOf(TheRun, t) /\ outcome[TheRun][t] = "Done")
                 => remote[k] = << notification_config[TheRun] >>
            /\ \A i \in PhaseCalls(TheRun, k, "rollback") :
                 calls[TheRun][i].payload = <<>>
            /\ ret[TheRun][t].returned => ret[TheRun][t].val = <<>>

\* C15 witness: a successful merge onto a bucket without a list of that type
C15_Witness ==
  \E t \in ConfigTypes :
    /\ remote0[ConfigKey(t)] = <<>>
    /\ fetched[TheRun][t] = <<>>
    /\ AtReturnOf(TheRun, t)
    /\ outcome[TheRun][t] = "Done"
    /\ Len(remote[ConfigKey(t)]) = 1

\* C16, the part about the puts: a merge issues at most three puts, at most
\* one of each kind, and a run that has not ended can take a step.
C16_AtMostThreePuts ==
  /\ \A t \in ConfigTypes :
       /\ Cardinality(PutCalls(TheRun, ConfigKey(t))) <= 3
       /\ \A phase \in {"get", "clear", "write", "rollback"} :
            Cardinality(PhaseCalls(TheRun, ConfigKey(t), phase)) <= 1
  /\ pc[TheRun] = "exit" \/ ENABLED Next

\* merge_config(t) was entered and has ended, by return or by exception
MergeEnded(p, t) ==
  \/ ctype[p] = t /\ pc[p] \in {"returned", "exit"}
  \/ t = "Topic" /\ ctype[p] = "Lambda" /\ args[p].topic_arn # None

\* C16 as stated: at most three puts, none retried, and every merge that has
\* ended is in Done, RolledBack or FatalLoss.
C16_EveryMergeEndsInOneOfThree ==
  /\ C16_AtMostThreePuts
  /\ \A t \in ConfigTypes :
       MergeEnded(TheRun, t)
         => outcome[TheRun][t] \in {"Done", "RolledBack", "FatalLoss"}

\* C16 amended: at most three puts, none retried, and every merge that has
\* ended is in Done, RolledBack or FatalLoss when its get succeeded; a merge
\* whose get failed has ended with the error, without any put.
C16_EveryFetchedMergeEndsInOneOfThree ==
  /\ C16_AtMostThreePuts
  /\ \A t \in ConfigTypes :
       MergeEnded(TheRun, t)
         => IF Fetched(TheRun, t)
            THEN outcome[TheRun][t] \in {"Done", "RolledBack", "FatalLoss"}
            ELSE /\ outcome[TheRun][t] = "FetchFailed"
                 /\ PutCalls(TheRun, ConfigKey(t)) = {}

\* C16 witness: a merge that used all three puts has ended
C16_Witness ==
  \E t \in ConfigTypes :
    /\ MergeEnded(TheRun, t)
    /\ Cardinality(PutCalls(TheRun, ConfigKey(t))) = 3
    /\ outcome[TheRun][t] \in {"RolledBack", "FatalLoss"}

\* the two lines that print the original list L are on the output
ExistingPrinted(p, L) ==
  \E j \in 1..(Len(out[p]) - 1) :
    /\ out[p][j] = <<"Existing config. PLEASE SAVE THIS FOR ROLLBACK", <<>>>>
    /\ out[p][j + 1] = <<"cfg", L>>

\* C17: once the get of a merge has succeeded the original list is on the
\* output, in every outcome; it is there, as the last thing printed, while
\* no put of that merge has been issued; and it is the first thing a run
\* prints.
C17_OriginalPrintedBeforeAnyPut ==
  \A t \in ConfigTypes :
    LET k == ConfigKey(t)
        L == fetched[TheRun][t]
        n == Len(out[TheRun])
    IN /\ Fetched(TheRun, t) => ExistingPrinted(TheRun, L)
       /\ PutCalls(TheRun, k) # {} => Fetched(TheRun, t)
       /\ (pc[TheRun] = "clear" /\ ctype[TheRun] = t)
            => /\ PutCalls(TheRun, k) = {}
               /\ n >= 2
               /\ out[TheRun][n] = <<"cfg", L>>
               /\ out[TheRun][n - 1]
                    = <<"Existing config. PLEASE SAVE THIS FOR ROLLBACK", <<>>>>
       /\ (Fetched(TheRun, t) /\ calls[TheRun][1].key = k)
            => out[TheRun][2] = <<"cfg", L>>

\* C17 witness: FatalLoss on a non-empty list, the original on the output
C17_Witness ==
  \E t \in ConfigTypes :
    /\ outcome[TheRun][t] = "FatalLoss"
    /\ fetched[TheRun][t] # <<>>
    /\ ExistingPrinted(TheRun, fetched[TheRun][t])

\* the status line of the merge of type t, as line 94 prints it
StatusLine(t, st) == << t \o " merging done with status " \o st, <<>> >>

\* how often a line is on the output of run p
TimesPrinted(p, line) == Cardinality({j \in DOMAIN out[p] : out[p][j] = line})

\* C18: the status line says "succeed" exactly when the clear put and the
\* merged put both succeeded, and "fail" exactly in RolledBack and FatalLoss;
\* in each of Done, RolledBack and FatalLoss it is printed once, as the last
\* line of the merge, also when the error goes on to leave the process.
C18_StatusLine ==
  \A t \in ConfigTypes :
    LET k == ConfigKey(t)
        n == Len(out[TheRun])
        okLine == StatusLine(t, "succeed")
        failLine == StatusLine(t, "fail")
    IN /\ TimesPrinted(TheRun, okLine) > 0
            <=> PhaseOk(TheRun, k, "clear") /\ PhaseOk(TheRun, k, "write")
       /\ TimesPrinted(TheRun, okLine) > 0 <=> outcome[TheRun][t] = "Done"
       /\ TimesPrinted(TheRun, failLine) > 0
            <=> outcome[TheRun][t] \in {"RolledBack", "FatalLoss"}
       /\ outcome[TheRun][t] \in {"Done", "RolledBack", "FatalLoss"}
            => /\ TimesPrinted(TheRun, okLine) + TimesPrinted(TheRun, failLine) = 1
               /\ ctype[TheRun] = t
                    => out[TheRun][n] \in {okLine, failLine}

\* C18 witness: FatalLoss, the process ended with the error, the line
\* "... status fail" last on the output
C18_Witness ==
  \E t \in ConfigTypes :
    /\ outcome[TheRun][t] = "FatalLoss"
    /\ pc[TheRun] = "exit" /\ exitStatus[TheRun] = ExitError
    /\ out[TheRun][Len(out[TheRun])] = StatusLine(t, "fail")

=============================================================================
